---- MODULE Spec2Model ----
(***************************************************************************)
(* Model of the dataplug FASTA map/reduce indexer                          *)
(* (cloudnative_datasets/genomics/sequence.py) and of the local            *)
(* preprocessing driver (cloudnative_datasets/cobase.py).                  *)
(*                                                                         *)
(* Text is a sequence of one-character strings; offsets are 0-based as in  *)
(* the Python source.  Index entries are kept as the strings the source    *)
(* builds, so that split/replace/in act on them exactly as in the code.    *)
(***************************************************************************)
EXTENDS Integers, Sequences, FiniteSets, TLC

NL == "\n"
GT == ">"
SP == " "

(***************************************************************************)
(* Python string primitives                                                *)
(***************************************************************************)

\* s[a:b] with Python's treatment of negative and out-of-range indices
PySlice(s, a, b) ==
    LET n == Len(s)
        norm(x) == IF x < 0 THEN (IF x + n < 0 THEN 0 ELSE x + n)
                   ELSE IF x > n THEN n ELSE x
        lo == norm(a)
        hi == norm(b)
    IN  IF lo >= hi THEN << >> ELSE SubSeq(s, lo + 1, hi)

\* s.replace(c, '') for a one-character c
RemoveChar(s, c) == SelectSeq(s, LAMBDA x : x # c)

\* s.replace(old, new): every non-overlapping occurrence, left to right
RECURSIVE Replace(_, _, _)
Replace(s, old, new) ==
    IF Len(s) < Len(old) THEN s
    ELSE IF SubSeq(s, 1, Len(old)) = old
         THEN new \o Replace(SubSeq(s, Len(old) + 1, Len(s)), old, new)
         ELSE << s[1] >> \o Replace(Tail(s), old, new)

\* sub in s
Contains(s, sub) ==
    \E k \in 1..(Len(s) - Len(sub) + 1) : SubSeq(s, k, k + Len(sub) - 1) = sub

\* s.split(c) for a one-character separator c
RECURSIVE Split(_, _)
Split(s, c) ==
    IF \A k \in 1..Len(s) : s[k] # c THEN << s >>
    ELSE LET k == CHOOSE j \in 1..Len(s) :
                      s[j] = c /\ \A h \in 1..(j - 1) : s[h] # c
         IN  << SubSeq(s, 1, k - 1) >> \o Split(SubSeq(s, k + 1, Len(s)), c)

Digits == << "0", "1", "2", "3", "4", "5", "6", "7", "8", "9" >>

\* str(n) for a natural number n
RECURSIVE Str(_)
Str(n) == IF n < 10 THEN << Digits[n + 1] >>
          ELSE Str(n \div 10) \o << Digits[(n % 10) + 1] >>

IsDigits(s) == Len(s) > 0 /\ \A k \in 1..Len(s) : \E d \in 1..10 : Digits[d] = s[k]

DigitVal(c) == (CHOOSE d \in 1..10 : Digits[d] = c) - 1

\* int(s) for a string of decimal digits
RECURSIVE IntOf(_)
IntOf(s) == IF Len(s) = 1 THEN DigitVal(s[1])
            ELSE 10 * IntOf(SubSeq(s, 1, Len(s) - 1)) + DigitVal(s[Len(s)])

(***************************************************************************)
(* The three regular expressions of map, as re.finditer returns them:      *)
(* match positions are 0-based, [s, e) half open.                          *)
(***************************************************************************)

\* 0-based position of the first newline at or after 0-based position p, or -1
NextNL(data, p) ==
    IF \E q \in p..(Len(data) - 1) : data[q + 1] = NL
    THEN CHOOSE q \in p..(Len(data) - 1) :
             data[q + 1] = NL /\ \A r \in p..(q - 1) : data[r + 1] # NL
    ELSE -1

\* re.finditer(r"\n>", data): the start of every match
IniHeads(data) ==
    LET ps == { p \in 0..(Len(data) - 2) : data[p + 1] = NL /\ data[p + 2] = GT }
        RECURSIVE Sorted(_)
        Sorted(S) == IF S = {} THEN << >>
                     ELSE LET x == CHOOSE y \in S : \A z \in S : y <= z
                          IN  << x >> \o Sorted(S \ {x})
    IN  Sorted(ps)

\* re.finditer(r">.+\n", data) scanning from 0-based position p
RECURSIVE HeadsFrom(_, _)
HeadsFrom(data, p) ==
    IF p >= Len(data) THEN << >>
    ELSE IF data[p + 1] # GT THEN HeadsFrom(data, p + 1)
    ELSE LET q == NextNL(data, p + 1)
         IN  IF q = -1 THEN << >>
             ELSE IF q = p + 1 THEN HeadsFrom(data, p + 1)
             ELSE << [s |-> p, e |-> q + 1] >> \o HeadsFrom(data, q + 1)

Heads(data) == HeadsFrom(data, 0)

\* re.finditer('.*\n', s) scanning from 0-based position p
RECURSIVE LinesFrom(_, _)
LinesFrom(s, p) ==
    LET q == NextNL(s, p)
    IN  IF p >= Len(s) \/ q = -1 THEN << >>
        ELSE << [s |-> p, e |-> q + 1] >> \o LinesFrom(s, q + 1)

LineMatches(s) == LinesFrom(s, 0)

(***************************************************************************)
(* FASTAPreprocesser.map                                                   *)
(***************************************************************************)

\* the literal pieces of the entry strings the source formats
HeadSplitPrefix == << ">", ">", " ", "<", "X", ">", " ", "<", "Y", ">", " " >>
TagX == << " ", "<", "X", ">", " " >>
TagY == << " ", "<", "Y", ">", " " >>
HeadSplitTag == << ">", ">" >>
HeadSplitTagSp == << ">", ">", " " >>
TailFull == << "<", "-", ">" >>
TailPart == << "<", "_", ">" >>

\* __get_length: appends the newline-free length of data[start_base:end_base]
\* (absolute offsets) to the last entry of content; content[-1] raises
\* IndexError on an empty list
get_length(min_range, content, data, start_base, end_base) ==
    LET len_base == Len(RemoveChar(PySlice(data, start_base - min_range,
                                           end_base - min_range), NL))
    IN  IF content = << >>
        THEN [content |-> content, err |-> "IndexError"]
        ELSE [content |-> [content EXCEPT ![Len(content)] =
                               @ \o << SP >> \o Str(len_base)],
              err |-> ""]

\* the placeholder appended for a chunk that begins inside a sequence
\* (lines 59-74), given the lines found before the first header match m
HeadSplitMarker(data, min_range, m, match_text) ==
    LET text == Split(PySlice(data, match_text[1].s, match_text[1].e), SP)[1]
        length_0 == Len(RemoveChar(PySlice(data, match_text[1].s, m.s), NL))
        offset_0 == match_text[1].s + min_range
        two == Len(match_text) > 1
        offset_1 == match_text[2].s + min_range
        length_1 == Len(RemoveChar(PySlice(data, match_text[2].s, m.s), NL))
        length_base == IF two THEN Str(length_0) \o << "-" >> \o Str(length_1)
                       ELSE Str(length_0)
        offset == IF two THEN Str(offset_0) \o << "-" >> \o Str(offset_1)
                  ELSE Str(offset_0)
    IN  HeadSplitPrefix \o offset \o << SP >> \o length_base
            \o << SP, "^" >> \o text \o << "^" >>

\* the entry appended for a header match m (line 85)
HeaderEntry(data, m, start, end) ==
    RemoveChar(Split(PySlice(data, m.s, m.e), SP)[1], GT)
        \o << SP, "1", SP >> \o Str(start) \o << SP >> \o Str(end)

\* one iteration of "for m in heads" (lines 50-86) on loop state st
MapIter(data, worker_id, min_range, m, st) ==
    LET start0 == min_range + m.s
        end0 == min_range + m.e
        check == st.first_sequence /\ worker_id > 0 /\ start0 - 1 > min_range
        match_text == LineMatches(PySlice(data, 0, m.s))
        split_found == check /\ match_text # << >>
        false_head == check /\ match_text = << >>
        first_sequence == IF st.first_sequence THEN false_head ELSE FALSE
        start == IF false_head THEN -1 ELSE start0
        end == IF false_head THEN -1 ELSE end0
        content1 == IF split_found
                    THEN Append(st.content,
                                HeadSplitMarker(data, min_range, m, match_text))
                    ELSE st.content
        gl == IF st.prev # start /\ st.prev # -1
              THEN get_length(min_range, content1, data, st.prev, start)
              ELSE [content |-> content1, err |-> ""]
        content2 == IF st.prev # start /\ gl.err = ""
                    THEN Append(gl.content, HeaderEntry(data, m, start, end))
                    ELSE gl.content
    IN  [first_sequence |-> first_sequence, prev |-> end,
         content |-> content2, err |-> gl.err]

RECURSIVE MapLoop(_, _, _, _, _, _)
MapLoop(data, worker_id, min_range, heads, k, st) ==
    IF k > Len(heads) \/ st.err # "" THEN st
    ELSE MapLoop(data, worker_id, min_range, heads, k + 1,
                 MapIter(data, worker_id, min_range, heads[k], st))

\* the part after the loop (lines 88-101): tail-split marker or final length
MapTail(data, min_range, max_range, ini_heads, heads, st) ==
    IF ini_heads = << >> \/ heads = << >>
    THEN [content |-> st.content, err |-> "IndexError"]
    ELSE IF ini_heads[Len(ini_heads)] + 1 > heads[Len(heads)].s
    THEN LET last_seq_start == ini_heads[Len(ini_heads)] + min_range + 1
             gl == get_length(min_range, st.content, data, st.prev, last_seq_start)
             text == PySlice(data, last_seq_start - min_range, Len(data))
             tag == IF \E k \in 1..Len(text) : text[k] = SP
                    THEN << "<", "-" >> ELSE << "<", "_" >>
         IN  IF gl.err # "" THEN gl
             ELSE [content |-> Append(gl.content,
                                      tag \o Split(text, SP)[1] \o << SP >>
                                          \o Str(last_seq_start)),
                   err |-> ""]
    ELSE get_length(min_range, st.content, data, st.prev, max_range)

\* map(data_stream, worker_id, key, chunk_size, obj_size, partitions); data is
\* the decoded text of data_stream
map(data, worker_id, chunk_size, obj_size, partitions) ==
    LET min_range == worker_id * chunk_size
        max_range == IF worker_id = partitions - 1 THEN obj_size
                     ELSE (worker_id + 1) * chunk_size
        ini_heads == IniHeads(data)
        heads == Heads(data)
        st0 == [first_sequence |-> TRUE, prev |-> -1, content |-> << >>, err |-> ""]
        st == MapLoop(data, worker_id, min_range, heads, 1, st0)
        fin == MapTail(data, min_range, max_range, ini_heads, heads, st)
        rec(c, e) == [min_range |-> min_range, max_range |-> max_range,
                      sequences |-> c, err |-> e]
    IN  IF ini_heads = << >> /\ data = << >> THEN rec(<< >>, "IndexError")
        ELSE IF ini_heads # << >> \/ data[1] = GT
        THEN IF st.err # "" THEN rec(st.content, st.err)
             ELSE rec(fin.content, fin.err)
        ELSE rec(<< >>, "")

(***************************************************************************)
(* FASTAPreprocesser.reduce, one iteration of its loop at a time.          *)
(* results is the list of records, i the 0-based loop index.  The list is  *)
(* mutated in place by the source, so what an iteration changed before it  *)
(* raised stays changed.                                                   *)
(***************************************************************************)

\* results[x] with Python's negative indexing: the 1-based index, 0 if none
PyIndex(n, x) == IF x < 0 THEN (IF x + n < 0 THEN 0 ELSE x + n + 1)
                 ELSE IF x >= n THEN 0 ELSE x + 1

\* lines 139-142 for one x: the span count of the last entry of results[x]
UpdateSpan(acc, x, split) ==
    LET k == PyIndex(Len(acc.results), x)
    IN  IF acc.err # "" THEN acc
        ELSE IF k = 0 THEN [acc EXCEPT !.err = "IndexError"]
        ELSE IF acc.results[k].sequences = << >>
        THEN [acc EXCEPT !.err = "IndexError"]
        ELSE LET seqs == acc.results[k].sequences
                 new == Replace(seqs[Len(seqs)],
                                << SP >> \o Str(split) \o << SP >>,
                                << SP >> \o Str(split + 1) \o << SP >>)
             IN  [acc EXCEPT !.results[k].sequences[Len(seqs)] = new]

RECURSIVE UpdateSpans(_, _, _, _)
UpdateSpans(acc, x, i, split) ==
    IF x >= i THEN acc
    ELSE UpdateSpans(UpdateSpan(acc, x, split), x + 1, i, split)

\* lines 143-149: the head-split marker of record i rewritten in place
RewriteMarker(acc, i, param, offset_base, length, split, offset_head, name_id) ==
    IF acc.err # "" THEN acc
    ELSE IF Len(param) < 6 THEN [acc EXCEPT !.err = "IndexError"]
    ELSE LET d0 == acc.results[i + 1].sequences[1]
             d1 == Replace(d0, << SP >> \o param[6], << >>)
             d2 == Replace(d1, << SP >> \o param[4] \o << SP >>,
                           << SP >> \o offset_base \o << SP >>)
             d3 == Replace(d2, << SP >> \o param[5], << SP >> \o length)
             d4 == Replace(d3, TagX, << SP >> \o Str(split + 1) \o << SP >>)
             d5 == Replace(d4, TagY, << SP >> \o offset_head \o << SP >>)
             d6 == Replace(d5, HeadSplitTagSp, name_id \o << SP >>)
         IN  [acc EXCEPT !.results[i + 1].sequences[1] = d6]

\* lines 120-131: the previous record ends with a tail-split marker
ReduceTailSplit(results, i, param, seq_prev, param_seq_prev) ==
    LET full == Contains(seq_prev, TailFull)
        lens == IF Len(param) >= 5 THEN Split(param[5], "-") ELSE << >>
        offs == IF Len(param) >= 4 THEN Split(param[4], "-") ELSE << >>
        bad == \/ (~full /\ Len(param) < 6)
               \/ Len(lens) < 2
               \/ Len(param_seq_prev) < 2
               \/ Len(offs) < 2
        name_id == IF full THEN Replace(param_seq_prev[1], TailFull, << >>)
                   ELSE Replace(param_seq_prev[1], TailPart, << >>)
                            \o RemoveChar(param[6], "^")
        offset_head == param_seq_prev[2]
        prev_seqs == results[i].sequences
        popped == [results EXCEPT
                     ![i].sequences = SubSeq(prev_seqs, 1, Len(prev_seqs) - 1)]
        ranged == [popped EXCEPT ![i + 1].min_range = IntOf(offset_head),
                                 ![i].max_range = IntOf(offset_head)]
    IN  IF bad THEN [results |-> results, err |-> "IndexError"]
        ELSE IF ~IsDigits(offset_head)
        THEN [results |-> popped, err |-> "ValueError"]
        ELSE RewriteMarker([results |-> ranged, err |-> ""], i, param,
                           offs[2], lens[2], 0, offset_head, name_id)

\* a variant of the body-split branch that takes the marker's last candidate
\* instead of its first
ReduceBodySplitLastCandidate(results, i, param, param_seq_prev) ==
    LET bad == Len(param) < 5 \/ Len(param_seq_prev) < 3
        lens == Split(param[5], "-")
        offs == Split(param[4], "-")
        split == IntOf(param_seq_prev[2])
    IN  IF bad THEN [results |-> results, err |-> "IndexError"]
        ELSE IF ~IsDigits(param_seq_prev[2])
        THEN [results |-> results, err |-> "ValueError"]
        ELSE RewriteMarker(UpdateSpans([results |-> results, err |-> ""],
                                       i - split, i, split),
                           i, param, offs[Len(offs)], lens[Len(lens)], split,
                           param_seq_prev[3], param_seq_prev[1])

\* lines 132-142: the previous record ends with an ordinary entry
ReduceBodySplit(results, i, param, param_seq_prev) ==
    LET bad == Len(param) < 5 \/ Len(param_seq_prev) < 3
        length == Split(param[5], "-")[1]
        name_id == param_seq_prev[1]
        offset_head == param_seq_prev[3]
        offset_base == Split(param[4], "-")[1]
        split == IntOf(param_seq_prev[2])
    IN  IF bad THEN [results |-> results, err |-> "IndexError"]
        ELSE IF ~IsDigits(param_seq_prev[2])
        THEN [results |-> results, err |-> "ValueError"]
        ELSE RewriteMarker(UpdateSpans([results |-> results, err |-> ""],
                                       i - split, i, split),
                           i, param, offset_base, length, split, offset_head,
                           name_id)

\* the body of "for i, dict in enumerate(results)" (lines 111-149)
ReduceIter(results, i) ==
    LET dictio == results[i + 1].sequences
        seq_range_prev == results[PyIndex(Len(results), i - 1)].sequences
        param == Split(dictio[1], SP)
        seq_prev == seq_range_prev[Len(seq_range_prev)]
        param_seq_prev == Split(seq_prev, SP)
    IN  IF i > 0 /\ seq_range_prev # << >> /\ dictio # << >>
           /\ Contains(dictio[1], HeadSplitTag)
        THEN IF Contains(seq_prev, TailFull) \/ Contains(seq_prev, TailPart)
             THEN ReduceTailSplit(results, i, param, seq_prev, param_seq_prev)
             ELSE ReduceBodySplit(results, i, param, param_seq_prev)
        ELSE [results |-> results, err |-> ""]

\* reduce(results) from loop index i on: stops at the first iteration that raises
RECURSIVE ReduceFrom(_, _)
ReduceFrom(acc, i) ==
    IF i >= Len(acc.results) \/ acc.err # "" THEN acc
    ELSE ReduceFrom(ReduceIter(acc.results, i), i + 1)

reduce(results) ==
    IF Len(results) > 1 THEN ReduceFrom([results |-> results, err |-> ""], 0)
    ELSE [results |-> results, err |-> ""]

(***************************************************************************)
(* The range computation of CloudObject.__local_preprocess                 *)
(***************************************************************************)

None == "None"

\* an optional integer argument: absent (None) or given with a value
NoArg == [given |-> FALSE, val |-> 0]
Arg(n) == [given |-> TRUE, val |-> n]

\* math.ceil(n / d) for positive d
Ceil(n, d) == (n + d - 1) \div d

\* round(n / d) for positive d: Python rounds halves to the even neighbour
Round(n, d) ==
    LET q == n \div d
        r == n % d
    IN  IF 2 * r < d THEN q
        ELSE IF 2 * r > d THEN q + 1
        ELSE IF q % 2 = 0 THEN q ELSE q + 1

\* a variant that only rejects the setting with both arguments
ConfigErrorBothOnly(chunk_size_arg, num_workers_arg) ==
    chunk_size_arg.given /\ num_workers_arg.given

\* lines 200-208: which settings raise
ConfigError(chunk_size_arg, num_workers_arg) ==
    \/ (chunk_size_arg.given /\ num_workers_arg.given)
    \/ (~chunk_size_arg.given /\ ~num_workers_arg.given)

\* lines 202-206: iterations and chunk_size for a setting that does not raise
Iterations(size, chunk_size_arg, num_workers_arg) ==
    IF chunk_size_arg.given THEN Ceil(size, chunk_size_arg.val)
    ELSE num_workers_arg.val

ChunkSize(size, chunk_size_arg, num_workers_arg) ==
    IF chunk_size_arg.given THEN chunk_size_arg.val
    ELSE Round(size, num_workers_arg.val)

\* lines 212-214: the range of iteration k
Range(k, csize, size) ==
    LET r0 == k * csize
        r1 == (k * csize) + csize
    IN  [r0 |-> r0, r1 |-> IF r1 <= size THEN r1 ELSE size]

(***************************************************************************)
(* Bounds and inputs                                                       *)
(***************************************************************************)

MaxLines == 5
MaxObjSize == 6
MaxArg == 4

HeaderS1 == << ">", "s", "1", "\n" >>
HeaderS2 == << ">", "s", "2", "\n" >>
HeaderDesc == << ">", "s", "3", " ", "d", "\n" >>
HeaderGt == << ">", "a", ">", ">", "b", "\n" >>
BodyA == << "A", "A", "A", "A", "\n" >>
BodyC == << "C", "C", "\n" >>
BodyC4 == << "C", "C", "C", "C", "\n" >>

Lines == { HeaderS1, HeaderDesc, HeaderGt, BodyC }

\* the object of the end-to-end example: >s1 AAAA >s2 CCCC, one per line
EndToEndObject == HeaderS1 \o BodyA \o HeaderS2 \o BodyC4

RECURSIVE TextsOf(_)
TextsOf(n) == IF n = 0 THEN { << >> }
              ELSE LET shorter == TextsOf(n - 1)
                   IN  shorter \cup { t \o l : t \in shorter, l \in Lines }

Texts == (TextsOf(MaxLines) \ { << >> }) \cup { EndToEndObject }

(***************************************************************************)
(* State                                                                   *)
(***************************************************************************)

VARIABLES
    \* the map/reduce job over one FASTA object
    text,          \* the object's decoded content
    chunk_size,    \* the chunk size every map call is given
    results,       \* the records the map calls returned, in worker_id order
    pc,            \* "map", "reduce", "done" or "failed"
    i,             \* reduce's loop index
    err,           \* the exception that ended the job, "" if none
    \* one call of CloudObject.__local_preprocess
    preprocesser,  \* "batch", "mapreduce" or "other"
    arg_chunk_size, arg_num_workers,  \* the call's arguments, None if absent
    obj_size,      \* ContentLength of the object
    cls_attr,      \* whether self._cls has the attribute line 230 reads
    pp_result,     \* what preprocess (batch) or reduce (map/reduce) returns
    lpc,           \* position in __local_preprocess
    it,            \* the loop variable of line 211
    fetched,       \* the ranges (r0, r1) requested so far
    map_calls,     \* number of map invocations made
    uploaded,      \* whether upload_fileobj was called
    obj_attrs      \* whether _obj_attrs was updated

jobVars == << text, chunk_size, results, pc, i, err >>
localVars == << preprocesser, arg_chunk_size, arg_num_workers, obj_size, cls_attr,
                pp_result, lpc, it, fetched, map_calls, uploaded, obj_attrs >>
vars == << text, chunk_size, results, pc, i, err,
           preprocesser, arg_chunk_size, arg_num_workers, obj_size, cls_attr,
           pp_result, lpc, it, fetched, map_calls, uploaded, obj_attrs >>

\* a preprocessor's return value None, as opposed to a (body, meta) pair
NoResult == [pair |-> FALSE, body |-> None, meta |-> None]

(***************************************************************************)
(* The map/reduce job: map on every chunk in worker_id order, then reduce  *)
(***************************************************************************)

Partitions == Iterations(Len(text), Arg(chunk_size), NoArg)

\* the bytes of worker w's range [min_range, max_range) (lines 35-38)
DataStream(w) ==
    PySlice(text, w * chunk_size,
            IF w = Partitions - 1 THEN Len(text) ELSE (w + 1) * chunk_size)

LocalIdle ==
    /\ preprocesser = "mapreduce"
    /\ arg_chunk_size = NoArg
    /\ arg_num_workers = NoArg
    /\ obj_size = 1
    /\ cls_attr = FALSE
    /\ pp_result = NoResult
    /\ lpc = "idle"
    /\ it = 0
    /\ fetched = << >>
    /\ map_calls = 0
    /\ uploaded = FALSE
    /\ obj_attrs = FALSE

Init ==
    /\ text \in Texts
    /\ chunk_size \in 1..Len(text)
    /\ results = << >>
    /\ pc = "map"
    /\ i = 0
    /\ err = ""
    /\ LocalIdle

\* one map call, for the next worker_id; an exception ends the job
MapChunk ==
    /\ pc = "map"
    /\ LET w == Len(results)
           r == map(DataStream(w), w, chunk_size, Len(text), Partitions)
       IN  IF r.err # ""
           THEN /\ pc' = "failed"
                /\ err' = r.err
                /\ UNCHANGED results
           ELSE /\ results' = Append(results,
                                     [min_range |-> r.min_range,
                                      max_range |-> r.max_range,
                                      sequences |-> r.sequences])
                /\ pc' = IF w = Partitions - 1 THEN "reduce" ELSE "map"
                /\ UNCHANGED err
    /\ UNCHANGED << text, chunk_size, i >>
    /\ UNCHANGED localVars

\* one iteration of reduce's loop (the whole call when the list has one record)
ReduceStep ==
    /\ pc = "reduce"
    /\ IF Len(results) > 1
       THEN LET r == ReduceIter(results, i)
            IN  /\ results' = r.results
                /\ err' = r.err
                /\ pc' = IF r.err # "" THEN "failed"
                         ELSE IF i = Len(results) - 1 THEN "done" ELSE "reduce"
                /\ i' = i + 1
       ELSE /\ pc' = "done"
            /\ UNCHANGED << results, err, i >>
    /\ UNCHANGED << text, chunk_size >>
    /\ UNCHANGED localVars

Next == MapChunk \/ ReduceStep

Spec == Init /\ [][Next]_vars

(***************************************************************************)
(* CloudObject.__local_preprocess                                          *)
(***************************************************************************)

\* what a preprocessor may return: None, or a (body, meta) pair whose parts
\* may be None
Results == { NoResult } \cup
           { [pair |-> TRUE, body |-> b, meta |-> m] :
                 b \in { None, "body" }, m \in { None, "meta" } }

Args == { NoArg } \cup { Arg(n) : n \in 1..MaxArg }

JobIdle ==
    /\ text = << >>
    /\ chunk_size = 1
    /\ results = << >>
    /\ pc = "idle"
    /\ i = 0
    /\ err = ""

LocalInit ==
    /\ preprocesser \in { "batch", "mapreduce", "other" }
    /\ arg_chunk_size \in Args
    /\ arg_num_workers \in Args
    /\ obj_size \in 1..MaxObjSize
    /\ cls_attr \in BOOLEAN
    /\ pp_result \in Results
    /\ lpc = "start"
    /\ it = 0
    /\ fetched = << >>
    /\ map_calls = 0
    /\ uploaded = FALSE
    /\ obj_attrs = FALSE
    /\ JobIdle

\* lines 155-208 and 235: select the path; on the map/reduce path check the
\* setting before anything is fetched.  The batch path fetches the whole object.
Start ==
    /\ lpc = "start"
    /\ IF preprocesser = "batch"
       THEN /\ lpc' = "preprocess"
            /\ fetched' = << [r0 |-> 0, r1 |-> obj_size] >>
       ELSE IF preprocesser = "mapreduce"
       THEN /\ lpc' = IF ConfigError(arg_chunk_size, arg_num_workers)
                      THEN "config_error" ELSE "map"
            /\ UNCHANGED fetched
       ELSE /\ lpc' = "kind_error"
            /\ UNCHANGED fetched
    /\ UNCHANGED << preprocesser, arg_chunk_size, arg_num_workers, obj_size,
                    cls_attr, pp_result, it, map_calls, uploaded, obj_attrs >>
    /\ UNCHANGED jobVars

\* lines 173-194: the batch path
Preprocess ==
    /\ lpc = "preprocess"
    /\ IF ~pp_result.pair
       THEN /\ lpc' = "processing_error"
            /\ UNCHANGED << uploaded, obj_attrs >>
       ELSE IF pp_result.body = None \/ pp_result.meta = None
       THEN /\ lpc' = "processing_error"
            /\ UNCHANGED << uploaded, obj_attrs >>
       ELSE /\ lpc' = "done"
            /\ uploaded' = TRUE
            /\ obj_attrs' = TRUE
    /\ UNCHANGED << preprocesser, arg_chunk_size, arg_num_workers, obj_size,
                    cls_attr, pp_result, it, fetched, map_calls >>
    /\ UNCHANGED jobVars

\* lines 211-231: one iteration of the loop; the range is requested before the
\* preprocessor attribute is read
MapCall ==
    /\ lpc = "map"
    /\ LET iterations == Iterations(obj_size, arg_chunk_size, arg_num_workers)
           csize == ChunkSize(obj_size, arg_chunk_size, arg_num_workers)
       IN  /\ fetched' = Append(fetched, Range(it, csize, obj_size))
           /\ IF cls_attr
              THEN /\ map_calls' = map_calls + 1
                   /\ it' = it + 1
                   /\ lpc' = IF it + 1 = iterations THEN "reduce" ELSE "map"
              ELSE /\ lpc' = "attribute_error"
                   /\ UNCHANGED << map_calls, it >>
    /\ UNCHANGED << preprocesser, arg_chunk_size, arg_num_workers, obj_size,
                    cls_attr, pp_result, uploaded, obj_attrs >>
    /\ UNCHANGED jobVars

\* line 233: reduce is called and its result unpacked; nothing follows
ReduceCall ==
    /\ lpc = "reduce"
    /\ lpc' = IF ~pp_result.pair THEN "type_error" ELSE "done"
    /\ UNCHANGED << preprocesser, arg_chunk_size, arg_num_workers, obj_size,
                    cls_attr, pp_result, it, fetched, map_calls, uploaded,
                    obj_attrs >>
    /\ UNCHANGED jobVars

LocalNext == Start \/ Preprocess \/ MapCall \/ ReduceCall

LocalSpec == LocalInit /\ [][LocalNext]_vars

(***************************************************************************)
(* What the object's text says, independently of map and reduce            *)
(***************************************************************************)

\* 0-based positions where a line begins with '>'
HeaderStarts(t) ==
    { p \in 0..(Len(t) - 1) : t[p + 1] = GT /\ (p = 0 \/ t[p] = NL) }

\* 0-based position just after the header line that starts at p
HeaderEnd(t, p) == IF NextNL(t, p) = -1 THEN Len(t) ELSE NextNL(t, p) + 1

\* 0-based position where the body of the sequence whose header starts at p ends
BodyEnd(t, p) ==
    IF \E q \in HeaderStarts(t) : q > p
    THEN CHOOSE q \in HeaderStarts(t) :
             q > p /\ \A r \in HeaderStarts(t) : r > p => q <= r
    ELSE Len(t)

\* number of non-newline bytes of that body
BodyLength(t, p) == Len(RemoveChar(PySlice(t, HeaderEnd(t, p), BodyEnd(t, p)), NL))

(***************************************************************************)
(* Reading the index entries                                               *)
(***************************************************************************)

IsHeadSplit(e) == Len(e) >= 2 /\ SubSeq(e, 1, 2) = << ">", ">" >>
IsTailSplit(e) == Len(e) >= 3 /\ SubSeq(e, 1, 3) \in { << "<", "-", ">" >>, << "<", "_", ">" >> }
IsPlaceholder(e) == IsHeadSplit(e) \/ IsTailSplit(e)

\* a final entry: id, span_count, header_offset, base_offset, base_length
IsFinal(e) ==
    /\ ~IsPlaceholder(e)
    /\ Len(Split(e, SP)) = 5
    /\ \A k \in 2..5 : IsDigits(Split(e, SP)[k])

\* every (record, position) of the index
AllEntries == { x \in (1..Len(results)) \X (1..(Len(text) + 1)) :
                    x[2] <= Len(results[x[1]].sequences) }
EntryAt(x) == results[x[1]].sequences[x[2]]

\* the final entries whose header offset is p
EntriesFor(p) == { x \in AllEntries :
                     IsFinal(EntryAt(x)) /\ Split(EntryAt(x), SP)[3] = Str(p) }

RECURSIVE SumLengths(_)
SumLengths(S) == IF S = {} THEN 0
                 ELSE LET x == CHOOSE y \in S : TRUE
                      IN  IntOf(Split(EntryAt(x), SP)[5]) + SumLengths(S \ {x})

\* a chunk whose last header start has no newline after it: the 0-based
\* position of that '>' in the chunk (-1 if there is none)
CutHeaderPos(data) ==
    IF \E p \in 1..(Len(data) - 1) :
           data[p] = NL /\ data[p + 1] = GT /\ \A q \in (p + 1)..Len(data) : data[q] # NL
    THEN CHOOSE p \in 1..(Len(data) - 1) :
           data[p] = NL /\ data[p + 1] = GT /\ \A q \in (p + 1)..Len(data) : data[q] # NL
    ELSE -1

\* map has been applied to worker w's chunk and reduce has not touched the list
MapApplied(w) == i = 0 /\ (w < Len(results) \/ (pc = "failed" /\ w = Len(results)))

(***************************************************************************)
(* Claims about the map/reduce job (specification Spec)                    *)
(***************************************************************************)

\* C2: when a header line straddles the boundary between two adjacent chunks,
\* map on every chunk and then reduce yield exactly one entry for that
\* sequence, with span_count 2 and the base length of its body, and no
\* tail-split marker for it is left.
C2_SplitHeaderStitched ==
    pc = "done" =>
        \A p \in HeaderStarts(text) : \A w \in 1..(Partitions - 1) :
            (p < w * chunk_size /\ w * chunk_size < HeaderEnd(text, p)) =>
                /\ Cardinality(EntriesFor(p)) = 1
                /\ \A x \in EntriesFor(p) :
                       /\ Split(EntryAt(x), SP)[2] = << "2" >>
                       /\ IntOf(Split(EntryAt(x), SP)[5]) = BodyLength(text, p)
                /\ \A x \in AllEntries :
                       IsTailSplit(EntryAt(x)) =>
                           Split(EntryAt(x), SP)[Len(Split(EntryAt(x), SP))] # Str(p)

\* C3: when a header line is complete in one chunk and the bases of its
\* sequence continue into (and end in) the next chunk, the reduced index
\* reports for that sequence a base length equal to the non-newline body bytes
\* of both chunks together.
C3_SplitBodyLength ==
    pc = "done" =>
        \A p \in HeaderStarts(text) : \A w \in 1..(Partitions - 1) :
            LET b == w * chunk_size
            IN  (/\ b - chunk_size <= p
                 /\ HeaderEnd(text, p) <= b
                 /\ b < BodyEnd(text, p)
                 /\ BodyEnd(text, p) <= b + chunk_size) =>
                    /\ EntriesFor(p) # {}
                    /\ SumLengths(EntriesFor(p)) = BodyLength(text, p)

\* C4: for a single-chunk object map returns one entry per header line of the
\* text, each with the newline-free length of the body that follows its header.
C4_SingleChunkIndex ==
    (Partitions = 1 /\ pc # "map") =>
        /\ err = ""
        /\ Len(results) = 1
        /\ Len(results[1].sequences) = Cardinality(HeaderStarts(text))
        /\ \A p \in HeaderStarts(text) :
               /\ Cardinality(EntriesFor(p)) = 1
               /\ SumLengths(EntriesFor(p)) = BodyLength(text, p)

\* C6: after reduce has returned, no entry of any record is still a
\* placeholder marker: every entry is a final five-field entry.
C6_NoPlaceholderLeft ==
    pc = "done" => \A x \in AllEntries : IsFinal(EntryAt(x))

\* C9: for every chunk whose last header start is not followed by a newline
\* inside the chunk, whether or not the chunk holds complete header lines, map
\* returns a record whose last entry is the tail-split marker: '<->' or '<_>'
\* (space seen or not), the id text up to the first space, and the absolute
\* offset of the header; the entry before it, if any, is final.
C9_TailSplitMarker ==
    \A w \in 0..(Partitions - 1) :
        LET data == DataStream(w)
            p == CutHeaderPos(data)
            captured == PySlice(data, p + 1, Len(data))
            tag == IF \E k \in 1..Len(captured) : captured[k] = SP
                   THEN << "<", "-", ">" >> ELSE << "<", "_", ">" >>
            marker == tag \o Split(captured, SP)[1] \o << SP >>
                          \o Str(w * chunk_size + p)
        IN  (MapApplied(w) /\ p # -1) =>
                /\ w < Len(results)
                /\ results[w + 1].sequences # << >>
                /\ LET seqs == results[w + 1].sequences
                   IN  /\ seqs[Len(seqs)] = marker
                       /\ Len(seqs) > 1 => IsFinal(seqs[Len(seqs) - 1])

\* C10: reduce applied again to an already reduced list changes no record
\* (sequences, min_range and max_range) and raises nothing.
C10_ReduceIdempotent ==
    pc = "done" => reduce(results) = [results |-> results, err |-> ""]

\* the loop of reduce is at a record i > 0 that starts with a head-split marker
\* while record i-1 is empty or does not end with a tail-split marker
HeadSplitWithoutTailSplit ==
    /\ pc = "reduce"
    /\ Len(results) > 1
    /\ i > 0
    /\ results[i + 1].sequences # << >>
    /\ IsHeadSplit(results[i + 1].sequences[1])
    /\ \/ results[i].sequences = << >>
       \/ ~IsTailSplit(results[i].sequences[Len(results[i].sequences)])

\* what a split body is resolved to: the previous record's last entry with its
\* span count raised by one, and the marker replaced by an entry that takes
\* its id, span count and header offset from that entry and its base offset
\* and length from the marker's first candidate
BodySplitResolved(rs, k) ==
    LET prev == rs[k].sequences[Len(rs[k].sequences)]
        pf == Split(prev, SP)
        mf == Split(rs[k + 1].sequences[1], SP)
        span == Str(IntOf(pf[2]) + 1)
        prev2 == pf[1] \o << SP >> \o span \o << SP >> \o pf[3] \o << SP >>
                     \o pf[4] \o << SP >> \o pf[5]
        entry == pf[1] \o << SP >> \o span \o << SP >> \o pf[3] \o << SP >>
                     \o Split(mf[4], "-")[1] \o << SP >> \o Split(mf[5], "-")[1]
    IN  [rs EXCEPT ![k].sequences[Len(rs[k].sequences)] = prev2,
                   ![k + 1].sequences[1] = entry]

LoopFinished == preprocesser = "mapreduce" /\ lpc \in { "reduce", "done", "type_error" }

\* C1: the ranges [r0, r1) computed for i = 0 .. iterations-1 are contiguous
\* and non-overlapping, start at 0, and the last one ends at obj_size.
C1_RangesCoverObject ==
    LoopFinished =>
        /\ fetched # << >>
        /\ fetched[1].r0 = 0
        /\ \A k \in 1..Len(fetched) : fetched[k].r0 <= fetched[k].r1
        /\ \A k \in 1..(Len(fetched) - 1) : fetched[k].r1 = fetched[k + 1].r0
        /\ fetched[Len(fetched)].r1 = obj_size

\* C7: on the map/reduce path, both chunk_size and num_workers or neither
\* raises before any range is fetched and before any map call; exactly one of
\* them raises no configuration error.
C7_ExactlyOneSetting ==
    (preprocesser = "mapreduce" /\ lpc # "start") =>
        /\ (arg_chunk_size.given = arg_num_workers.given) <=> (lpc = "config_error")
        /\ lpc = "config_error" => (fetched = << >> /\ map_calls = 0)

\* C7 witness: both settings were supplied and the call has raised
C7_BothGivenRaised ==
    /\ preprocesser = "mapreduce"
    /\ arg_chunk_size.given /\ arg_num_workers.given
    /\ lpc = "config_error"

\* C8: on both paths a preprocessor result that is None, or whose body or
\* metadata is None, raises the explicit processing error, and nothing is
\* uploaded or recorded in the object's attributes.
C8_ResultsValidated ==
    (/\ lpc \in { "processing_error", "done", "type_error" }
     /\ (~pp_result.pair \/ pp_result.body = None \/ pp_result.meta = None)) =>
        (lpc = "processing_error" /\ ~uploaded /\ ~obj_attrs)

====
